---- MODULE Spec2Model ----
(***************************************************************************)
(* LearnMate AI (src/study_m.py): a Streamlit page that generates study    *)
(* plans and daily lesson texts with a language model and keeps one JSON   *)
(* document per session id on disk.                                        *)
(*                                                                         *)
(* The model has one process per browser tab.  A page run is a sequence of *)
(* steps; a step ends at every file-system call and at every blocking      *)
(* model call, so that runs of two tabs interleave where they can in the   *)
(* program.                                                                *)
(***************************************************************************)
EXTENDS Integers, Sequences, FiniteSets, TLC

VARIABLES
    disk,       \* content of sessions/session_<id>.json
    backup,     \* content of sessions/session_<id>.json.backup
    now,        \* the wall clock: every time.strftime reads a later second
    budget,     \* user interactions left
    faults,     \* failures of the model endpoint and of the file system left
    pc,         \* per tab: position of the page run
    sid,        \* per tab: value of the session_id text input
    mem,        \* per tab: current_session of the latest run
    isNew,      \* per tab: is_new_session of the latest run
    day,        \* per tab: selected_day of the latest run
    shown,      \* per tab: lesson text written to the page by the latest run
    chat,       \* per tab: st.session_state.chat_messages[session_id]
    newPlan,    \* per tab: 'new_plan' in st.session_state
    qReady,     \* per tab: the question input of the latest run is on the page
    trig,       \* per tab: the interaction that started the run
    saveRet,    \* per tab: last return value of save_session_data
    fd,         \* per tab: the file the open handle of a running save points to
    before,     \* per tab: the file as the running save found it
    cont,       \* per tab: where the run continues after save_session_data
    hist,       \* log of the daily-content model client and of the store
    plan_in,    \* input of the course factory (factory specification)
    plan_out    \* its result (factory specification)

vars == <<disk, backup, now, budget, faults, pc, sid, mem, isNew, day, shown, chat,
          newPlan, qReady, trig, saveRet, fd, before, cont, hist, plan_in,
          plan_out>>

(***************************************************************************)
(* Bounds                                                                  *)
(***************************************************************************)
MaxCourses == 2
MaxDay == 2
MaxQA == 2
MaxSteps == 4
MaxFaults == 1
MaxLen == 4

Tabs == {1, 2}

(***************************************************************************)
(* Values                                                                  *)
(***************************************************************************)
None == "None"
SessionId == "user123"
\* outputs of the model client: lesson texts and answers
Texts == {"t1", "t2"}
Answers == {"a1"}
Questions == {"Q1", "Q2"}
\* characters of a plan text
Digits == <<"0", "1", "2", "3", "4", "5", "6", "7", "8", "9">>
Alphabet == {"0", "2", "a", "\n"}
\* plan texts the plan chain returns in the page runs
PlanResponses == {<<"2">>, <<"0", "\n", "2">>}

\* f"course_{n}"
CourseId(n) == <<"course_1", "course_2", "course_3", "course_4", "course_5",
                 "course_6">>[n]

\* str(n) of a day number
DayStr == <<"1", "2", "3", "4", "5", "6", "7", "8", "9", "10", "11", "12",
            "13", "14", "15", "16", "17", "18", "19", "20">>

\* int(k) of a day key
DayInt(k) == CHOOSE n \in 1..Len(DayStr) : DayStr[n] = k

Max(S) == CHOOSE x \in S : \A y \in S : y <= x

Min2(a, b) == IF a <= b THEN a ELSE b

NoCourses == [c \in {} |-> 0]

init_session_data == [courses |-> NoCourses, last_accessed_course |-> None]

(***************************************************************************)
(* Course factory                                                          *)
(***************************************************************************)
IsDigit(c) == \E i \in 1..Len(Digits) : Digits[i] = c

DigitVal(c) == (CHOOSE i \in 1..Len(Digits) : Digits[i] = c) - 1

\* the whole text instead of its first line
FirstLine_Mut(s) == s

\* study_plan_response.split('\n')[0]
FirstLine(s) ==
    IF \E i \in 1..Len(s) : s[i] = "\n"
    THEN SubSeq(s, 1, (CHOOSE i \in 1..Len(s) :
                          /\ s[i] = "\n"
                          /\ \A j \in 1..(i - 1) : s[j] # "\n") - 1)
    ELSE s

\* re.search(r'\d+', line): the leftmost, longest run of digits, or <<>>
DigitRun(line) ==
    IF \E i \in 1..Len(line) : IsDigit(line[i])
    THEN LET b == CHOOSE i \in 1..Len(line) :
                      /\ IsDigit(line[i])
                      /\ \A j \in 1..(i - 1) : ~IsDigit(line[j])
             e == CHOOSE i \in b..Len(line) :
                      /\ \A j \in b..i : IsDigit(line[j])
                      /\ (i = Len(line) \/ ~IsDigit(line[i + 1]))
         IN SubSeq(line, b, e)
    ELSE <<>>

RECURSIVE ParseInt(_)
\* int(digits)
ParseInt(ds) ==
    IF ds = <<>> THEN 0
    ELSE 10 * ParseInt(SubSeq(ds, 1, Len(ds) - 1)) + DigitVal(ds[Len(ds)])

Duration(study_plan_response) ==
    LET duration_match == DigitRun(FirstLine(study_plan_response))
    IN IF duration_match # <<>> THEN ParseInt(duration_match) ELSE 20

create_new_course(course_name, level, study_content, study_plan_response, t) ==
    [course_name |-> course_name,
     level |-> level,
     study_content |-> study_content,
     study_plan |-> study_plan_response,
     created_at |-> t,
     last_access |-> t,
     duration |-> Duration(study_plan_response),
     progress |-> [current_day |-> 1, completed_days |-> <<>>],
     daily_contents |-> [k \in {} |-> ""],
     qa_history |-> <<>>]

(***************************************************************************)
(* Session store                                                           *)
(***************************************************************************)
\* A file is absent, holds a JSON document ("json"), text that is not JSON
\* ("badjson": empty, cut short or overwritten in part) or bytes that are not
\* UTF-8 ("badbytes": cut inside a character).  doc names the document whose
\* serialization the bytes come from.
Absent == [kind |-> "absent", doc |-> init_session_data]
Truncated == [kind |-> "badjson", doc |-> init_session_data]

\* the day contents left out of the serialized course
SerializeCourse_Mut(course) ==
    [course EXCEPT !.daily_contents = [k \in {} |-> ""]]

SerializeCourse(course) ==
    [course_name |-> course.course_name,
     level |-> course.level,
     study_content |-> course.study_content,
     study_plan |-> course.study_plan,
     created_at |-> course.created_at,
     last_access |-> course.last_access,
     duration |-> course.duration,
     progress |-> course.progress,
     daily_contents |-> [k \in DOMAIN course.daily_contents |->
                            course.daily_contents[k]],
     qa_history |-> course.qa_history]

\* last_accessed_course left out of the serialized document
Serialize_Mut(data) ==
    [courses |-> [c \in DOMAIN data.courses |-> SerializeCourse(data.courses[c])],
     last_accessed_course |-> None]

\* serializable_data of save_session_data
Serialize(data) ==
    [courses |-> [c \in DOMAIN data.courses |-> SerializeCourse(data.courses[c])],
     last_accessed_course |-> data.last_accessed_course]

JsonFile(data) == [kind |-> "json", doc |-> Serialize(data)]


\* what json.load makes of a "json" file
JsonLoad(file) == file.doc

\* open(filename, 'w'): the file is created empty or emptied
Opened(file) == Truncated

\* what load_session_data returns for a file
Loaded(file) ==
    IF file.kind = "json" THEN JsonLoad(file) ELSE init_session_data

(***************************************************************************)
(* Documents                                                               *)
(***************************************************************************)
\* current_session.get('last_accessed_course') is truthy
HasCourse(doc) == doc.last_accessed_course # None

\* the lookup current_session['courses'][last_accessed_course] raises KeyError
Dangling(doc) ==
    /\ HasCourse(doc)
    /\ doc.last_accessed_course \notin DOMAIN doc.courses

current_course(doc) == doc.courses[doc.last_accessed_course]

\* courses[course_id] = course
PutCourse(doc, course_id, course) ==
    [doc EXCEPT !.courses =
        [c \in DOMAIN doc.courses \cup {course_id} |->
            IF c = course_id THEN course ELSE doc.courses[c]]]

\* len(current_session['courses']) without the + 1
NewCourseId_Mut(doc) ==
    IF DOMAIN doc.courses = {} THEN "course_0"
    ELSE CourseId(Cardinality(DOMAIN doc.courses))

\* len(current_session['courses']) + 1, as a course id
NewCourseId(doc) == CourseId(Cardinality(DOMAIN doc.courses) + 1)

\* the two statements of lines 276-284
AddCourse(doc, course) ==
    LET course_id == NewCourseId(doc)
    IN [PutCourse(doc, course_id, course) EXCEPT
            !.last_accessed_course = course_id]

\* current_course['daily_contents'][str(selected_day)] = daily_content
PutDay(doc, selected_day, daily_content) ==
    LET cid == doc.last_accessed_course
        dc == doc.courses[cid].daily_contents
        key == DayStr[selected_day]
    IN [doc EXCEPT !.courses[cid].daily_contents =
           [k \in DOMAIN dc \cup {key} |->
               IF k = key THEN daily_content ELSE dc[k]]]

\* append(entry) instead of insert(0, entry)
InsertQA_Mut(doc, entry) ==
    LET cid == doc.last_accessed_course
    IN [doc EXCEPT !.courses[cid].qa_history = @ \o <<entry>>]

\* current_course['qa_history'].insert(0, entry)
InsertQA(doc, entry) ==
    LET cid == doc.last_accessed_course
    IN [doc EXCEPT !.courses[cid].qa_history = <<entry>> \o @]

\* the test made with the day number instead of str(selected_day): the keys
\* are strings, so it never finds one
HasDay_Mut(course, selected_day) == FALSE

\* str(selected_day) in current_course['daily_contents']
HasDay(course, selected_day) == DayStr[selected_day] \in DOMAIN course.daily_contents

\* the upper end of the day slider
SliderMax(course) == IF course.duration # 0 THEN course.duration ELSE 20

\* max(map(int, daily_contents.keys())), 1 when there is none
LastDay(course) ==
    IF DOMAIN course.daily_contents # {}
    THEN Max({DayInt(k) : k \in DOMAIN course.daily_contents})
    ELSE 1

RECURSIVE SortedQA(_)
\* sorted(qa_history, key=timestamp, reverse=True): stable, newest first
SortedQA(h) ==
    IF h = <<>> THEN <<>>
    ELSE LET e == h[Len(h)]
             s == SortedQA(SubSeq(h, 1, Len(h) - 1))
             n == Cardinality({i \in 1..Len(s) : s[i].timestamp >= e.timestamp})
         IN SubSeq(s, 1, n) \o <<e>> \o SubSeq(s, n + 1, Len(s))

\* the transcript built from the history at lines 399-409
ChatOf(h) ==
    [i \in 1..Len(h) |->
        [question |-> SortedQA(h)[i].question, answer |-> SortedQA(h)[i].answer]]


(***************************************************************************)
(* Page runs                                                               *)
(***************************************************************************)
Set(f, t, v) == [f EXCEPT ![t] = v]

NoTrig == [kind |-> "none", q |-> ""]

factoryVars == <<plan_in, plan_out>>

\* left alone by every step but those of save_session_data
saveVars == <<before, factoryVars>>

Init ==
    /\ disk = Absent
    /\ backup = Absent
    /\ now = 0
    /\ budget = MaxSteps
    /\ faults = MaxFaults
    /\ pc = [t \in Tabs |-> "idle"]
    /\ sid = [t \in Tabs |-> ""]
    /\ mem = [t \in Tabs |-> init_session_data]
    /\ isNew = [t \in Tabs |-> TRUE]
    /\ day = [t \in Tabs |-> 1]
    /\ shown = [t \in Tabs |-> None]
    /\ chat = [t \in Tabs |-> <<>>]
    /\ newPlan = [t \in Tabs |-> FALSE]
    /\ qReady = [t \in Tabs |-> FALSE]
    /\ trig = [t \in Tabs |-> NoTrig]
    /\ saveRet = [t \in Tabs |-> "none"]
    /\ fd = [t \in Tabs |-> "closed"]
    /\ before = [t \in Tabs |-> Absent]
    /\ cont = [t \in Tabs |-> "none"]
    /\ hist = [called |-> {}, dup |-> FALSE, deleted |-> FALSE,
               saveFailed |-> FALSE, users |-> {}]
    /\ plan_in = <<>>
    /\ plan_out = <<>>

\* A user interaction starts a page run (a script run of main).
StartRun(t, kind, q, first) ==
    /\ pc[t] = "idle"
    /\ budget > 0
    /\ budget' = budget - 1
    /\ trig' = Set(trig, t, [kind |-> kind, q |-> q])
    /\ pc' = Set(pc, t, first)
    /\ shown' = Set(shown, t, None)
    /\ UNCHANGED <<disk, backup, now, faults, mem, isNew, day, chat, newPlan,
                   qReady, saveRet, fd, cont, saveVars>>

\* the user types a session id into the sidebar; the tabs are numbered in the
\* order in which they first do
EnterSessionId(t) ==
    /\ sid[t] = ""
    /\ \A u \in Tabs : u < t => u \in hist.users
    /\ sid' = Set(sid, t, SessionId)
    /\ hist' = [hist EXCEPT !.users = @ \cup {t}]
    /\ StartRun(t, "none", "", "exists")

\* any interaction without a handler of its own, such as moving the day slider
Rerun(t) ==
    /\ sid[t] # ""
    /\ StartRun(t, "none", "", "exists")
    /\ UNCHANGED <<sid, hist>>

\* the plan button, with a course name and a study content filled in
ClickPlan(t) ==
    /\ sid[t] # ""
    /\ StartRun(t, "plan", "", "exists")
    /\ UNCHANGED <<sid, hist>>

\* the delete button, which the latest run drew only for an existing session
ClickDelete(t) ==
    /\ sid[t] # ""
    /\ ~isNew[t]
    /\ StartRun(t, "delete", "", "exists")
    /\ UNCHANGED <<sid, hist>>

\* a question typed into the question input: its on_change callback runs
\* handle_question of the latest run before the script runs again
AskQuestion(t, q) ==
    /\ pc[t] = "idle"
    /\ qReady[t]
    /\ Len(current_course(mem[t]).qa_history) < MaxQA
    /\ StartRun(t, "question", q, "qcall")
    /\ UNCHANGED <<sid, hist>>

\* lines 386-470: the transcript is rebuilt from a non-empty history and the
\* question input is drawn
QASection(t, doc) ==
    /\ chat' = Set(chat, t, IF current_course(doc).qa_history # <<>>
                            THEN ChatOf(current_course(doc).qa_history)
                            ELSE chat[t])
    /\ qReady' = Set(qReady, t, TRUE)
    /\ pc' = Set(pc, t, "idle")

\* lines 226-238 and the branch on the button that was clicked
Sidebar(t, doc, is_new) ==
    /\ mem' = Set(mem, t, doc)
    /\ newPlan' = Set(newPlan, t, FALSE)
    /\ trig' = Set(trig, t, NoTrig)
    /\ IF ~newPlan[t] /\ Dangling(doc)
       THEN /\ pc' = Set(pc, t, "idle")
            /\ qReady' = Set(qReady, t, FALSE)
       ELSE /\ pc' = Set(pc, t,
                   CASE trig[t].kind = "plan" -> "plancall"
                     [] trig[t].kind = "delete" /\ ~is_new -> "delete"
                     [] OTHER -> "render")
            /\ UNCHANGED qReady

\* line 216, and line 221 when there is no file
CheckExists(t) ==
    /\ pc[t] = "exists"
    /\ isNew' = Set(isNew, t, disk.kind = "absent")
    /\ IF disk.kind = "absent"
       THEN Sidebar(t, init_session_data, TRUE)
       ELSE /\ pc' = Set(pc, t, "load")
            /\ UNCHANGED <<mem, newPlan, trig, qReady>>
    /\ UNCHANGED <<disk, backup, now, budget, faults, sid, day, shown, chat, saveRet,
                   fd, cont, hist, saveVars>>

\* load_session_data up to the end of json.load: the document, a fresh one for
\* no file and for bytes that are not UTF-8 (UnicodeDecodeError is no
\* json.JSONDecodeError: the outer handler), or on to the inner handler
Load(t) ==
    /\ pc[t] = "load"
    /\ IF disk.kind = "badjson"
       THEN /\ pc' = Set(pc, t, "rename")
            /\ UNCHANGED <<mem, newPlan, trig, qReady>>
       ELSE Sidebar(t, Loaded(disk), FALSE)
    /\ UNCHANGED <<disk, backup, now, budget, faults, sid, isNew, day, shown, chat,
                   saveRet, fd, cont, hist, saveVars>>

\* the open handles of running saves follow the file they were opened on
Renamed(f) ==
    [u \in Tabs |-> CASE f[u] = "path" -> "backup"
                      [] f[u] = "backup" -> "gone"
                      [] OTHER -> f[u]]

Removed(f) == [u \in Tabs |-> IF f[u] = "path" THEN "gone" ELSE f[u]]

\* the handler of json.JSONDecodeError, lines 156-162.  os.rename replaces an
\* existing backup on POSIX and raises on Windows.
Rename(t) ==
    /\ pc[t] = "rename"
    /\ \/ /\ disk.kind # "absent"
          /\ backup' = disk
          /\ disk' = Absent
          /\ fd' = Renamed(fd)
       \/ /\ disk.kind = "absent" \/ backup.kind # "absent"
          /\ UNCHANGED <<disk, backup, fd>>
    /\ Sidebar(t, init_session_data, FALSE)
    /\ UNCHANGED <<now, budget, faults, sid, isNew, day, shown, chat, saveRet, cont,
                   hist, saveVars>>


\* plan_chain.invoke returns: lines 269-285, up to the call of save_session_data
PlanReturned(t, study_plan_response) ==
    /\ pc[t] = "plancall"
    /\ Cardinality(DOMAIN mem[t].courses) < MaxCourses
    /\ now' = now + 1
    /\ mem' = Set(mem, t, AddCourse(mem[t],
           create_new_course("course", "level", "content",
                             study_plan_response, now')))
    /\ pc' = Set(pc, t, "save_open")
    /\ cont' = Set(cont, t, "rerun")
    /\ UNCHANGED <<disk, backup, budget, faults, sid, isNew, day, shown, chat, newPlan,
                   qReady, trig, saveRet, fd, hist, saveVars>>

\* plan_chain.invoke raises: lines 291-293, then the page is drawn
PlanFailed(t) ==
    /\ pc[t] = "plancall"
    /\ faults > 0
    /\ faults' = faults - 1
    /\ pc' = Set(pc, t, "render")
    /\ UNCHANGED <<disk, backup, now, budget, sid, mem, isNew, day, shown, chat,
                   newPlan, qReady, trig, saveRet, fd, cont, hist, saveVars>>

\* lines 304-311 with delete_session_data; st.session_state.clear() drops the
\* transcript and every widget value, and the run that follows has no session id
Delete(t) ==
    /\ pc[t] = "delete"
    /\ IF disk.kind # "absent"
       THEN /\ disk' = Absent
            /\ fd' = Removed(fd)
            /\ mem' = Set(mem, t, init_session_data)
            /\ sid' = Set(sid, t, "")
            /\ chat' = Set(chat, t, <<>>)
            /\ qReady' = Set(qReady, t, FALSE)
            /\ pc' = Set(pc, t, "idle")
            /\ hist' = [hist EXCEPT !.deleted = TRUE]
       ELSE /\ pc' = Set(pc, t, "render")
            /\ UNCHANGED <<disk, fd, mem, sid, chat, qReady, hist>>
    /\ UNCHANGED <<backup, now, budget, faults, isNew, day, shown, newPlan, trig,
                   saveRet, cont, saveVars>>

\* lines 317-367: the main column up to the stored lesson text or the model
\* call.  No course to show, a missing course or a slider whose value lies
\* beyond its range ends the run before the question input is drawn.
Render(t) ==
    /\ pc[t] = "render"
    /\ IF \/ ~HasCourse(mem[t])
          \/ Dangling(mem[t])
          \/ ~isNew[t] /\ LastDay(current_course(mem[t])) >
                              SliderMax(current_course(mem[t]))
       THEN /\ pc' = Set(pc, t, "idle")
            /\ qReady' = Set(qReady, t, FALSE)
            /\ UNCHANGED <<day, shown, chat>>
       ELSE \E selected_day \in
                   1..Min2(SliderMax(current_course(mem[t])), MaxDay) :
              /\ day' = Set(day, t, selected_day)
              /\ IF HasDay(current_course(mem[t]), selected_day)
                 THEN /\ shown' = Set(shown, t,
                           current_course(mem[t]).daily_contents[DayStr[selected_day]])
                      /\ QASection(t, mem[t])
                 ELSE /\ pc' = Set(pc, t, "daycall")
                      /\ UNCHANGED <<shown, chat, qReady>>
    /\ UNCHANGED <<disk, backup, now, budget, faults, sid, mem, isNew, newPlan, trig,
                   saveRet, fd, cont, hist, saveVars>>

\* the log of the daily-content model client: a text it returns for a day of a
\* course it has already returned a text for is a second generation
Generated(h, course_id, selected_day) ==
    [h EXCEPT !.called = @ \cup {<<course_id, selected_day>>},
              !.dup = @ \/ <<course_id, selected_day>> \in h.called]

\* daily_chain.invoke returns: lines 369-376, up to the call of save_session_data
DayReturned(t, daily_content) ==
    /\ pc[t] = "daycall"
    /\ mem' = Set(mem, t, PutDay(mem[t], day[t], daily_content))
    /\ shown' = Set(shown, t, daily_content)
    /\ hist' = Generated(hist, mem[t].last_accessed_course, day[t])
    /\ pc' = Set(pc, t, "save_open")
    /\ cont' = Set(cont, t, "qa")
    /\ UNCHANGED <<disk, backup, now, budget, faults, sid, isNew, day, chat, newPlan,
                   qReady, trig, saveRet, fd, saveVars>>

\* daily_chain.invoke raises: the handler of lines 472-475 ends the run before
\* the question input is drawn
DayFailed(t) ==
    /\ pc[t] = "daycall"
    /\ faults > 0
    /\ faults' = faults - 1
    /\ pc' = Set(pc, t, "idle")
    /\ qReady' = Set(qReady, t, FALSE)
    /\ UNCHANGED <<disk, backup, now, budget, sid, mem, isNew, day, shown, chat,
                   newPlan, trig, saveRet, fd, cont, hist, saveVars>>

\* llm.invoke returns in handle_question: lines 440-455
QuestionAnswered(t, answer_content) ==
    /\ pc[t] = "qcall"
    /\ chat' = Set(chat, t, <<[question |-> trig[t].q,
                              answer |-> answer_content]>> \o chat[t])
    /\ now' = now + 1
    /\ mem' = Set(mem, t, InsertQA(mem[t],
           [day |-> day[t], question |-> trig[t].q,
            answer |-> answer_content, timestamp |-> now']))
    /\ trig' = Set(trig, t, NoTrig)
    /\ pc' = Set(pc, t, "save_open")
    /\ cont' = Set(cont, t, "start")
    /\ UNCHANGED <<disk, backup, budget, faults, sid, isNew, day, shown, newPlan,
                   qReady, saveRet, fd, hist, saveVars>>

\* the question put into the transcript before llm.invoke is called
QuestionFailed_Mut(t) ==
    /\ pc[t] = "qcall"
    /\ faults > 0
    /\ faults' = faults - 1
    /\ chat' = Set(chat, t, <<[question |-> trig[t].q, answer |-> ""]>> \o chat[t])
    /\ trig' = Set(trig, t, NoTrig)
    /\ pc' = Set(pc, t, "exists")
    /\ UNCHANGED <<disk, backup, now, budget, sid, mem, isNew, day, shown,
                   newPlan, qReady, saveRet, fd, cont, hist, saveVars>>

\* llm.invoke raises in handle_question: lines 461-463, then the script runs
QuestionFailed(t) ==
    /\ pc[t] = "qcall"
    /\ faults > 0
    /\ faults' = faults - 1
    /\ trig' = Set(trig, t, NoTrig)
    /\ pc' = Set(pc, t, "exists")
    /\ UNCHANGED <<disk, backup, now, budget, sid, mem, isNew, day, shown, chat,
                   newPlan, qReady, saveRet, fd, cont, hist, saveVars>>

(***************************************************************************)
(* save_session_data, in two steps: open(filename, 'w') empties the file,  *)
(* json.dump and the close write it                                        *)
(***************************************************************************)
\* where the caller goes on, whatever save_session_data returned
AfterSave(t) ==
    /\ cont' = Set(cont, t, "none")
    /\ CASE cont[t] = "rerun" ->
              /\ newPlan' = Set(newPlan, t, TRUE)
              /\ pc' = Set(pc, t, "exists")
              /\ UNCHANGED <<chat, qReady>>
         [] cont[t] = "qa" ->
              /\ QASection(t, mem[t])
              /\ UNCHANGED newPlan
         [] OTHER ->
              /\ pc' = Set(pc, t, "exists")
              /\ UNCHANGED <<newPlan, chat, qReady>>

\* lines 117-138: os.makedirs or open raises and nothing is touched, or the
\* file is created or emptied
SaveOpen(t) ==
    /\ pc[t] = "save_open"
    /\ \/ /\ disk' = Opened(disk)
          /\ fd' = Set(fd, t, "path")
          /\ before' = Set(before, t, disk)
          /\ pc' = Set(pc, t, "save_write")
          /\ UNCHANGED <<faults, saveRet, hist, cont, newPlan, chat, qReady>>
       \/ /\ faults > 0
          /\ faults' = faults - 1
          /\ saveRet' = Set(saveRet, t, "False")
          /\ hist' = [hist EXCEPT !.saveFailed = TRUE]
          /\ AfterSave(t)
          /\ UNCHANGED <<disk, fd, before>>
    /\ UNCHANGED <<backup, now, budget, sid, mem, isNew, day, shown, trig,
                   factoryVars>>

\* the bytes of a file the handle of tab t points to
Target(t) == IF fd[t] = "path" THEN disk ELSE IF fd[t] = "backup" THEN backup ELSE Absent

\* json.dump reaches the file in several write calls, one before and one
\* after every long text.  When the write calls of two saves interleave and
\* the last one of each starts at the same offset, the file is the document
\* the other save wrote up to that offset followed by the end of this one,
\* which holds last_accessed_course.
Spliced(t) ==
    [kind |-> "json",
     doc |-> [courses |-> Target(t).doc.courses,
              last_accessed_course |-> Serialize(mem[t]).last_accessed_course]]

\* what a completed json.dump leaves in the file: the document, or, when
\* another writer has put a different text there since the file was emptied,
\* the document followed by the rest of that text, or a document spliced
\* from both
Written(t) ==
    {JsonFile(mem[t])} \cup
    (IF Target(t).kind \in {"json", "badjson", "badbytes"}
        /\ Target(t) # Truncated
        /\ Target(t).doc # Serialize(mem[t])
     THEN {[kind |-> "badjson", doc |-> Serialize(mem[t])]}
     ELSE {}) \cup
    (IF Target(t).kind = "json" /\ Target(t).doc # Serialize(mem[t])
     THEN {Spliced(t)}
     ELSE {})

\* what a json.dump that raises leaves behind: a text cut short, possibly
\* inside a character (ensure_ascii=False)
Partial(t) ==
    {[kind |-> k, doc |-> Serialize(mem[t])] : k \in {"badjson", "badbytes"}}

\* lines 138-143
SaveWrite(t) ==
    /\ pc[t] = "save_write"
    /\ \E ok \in {TRUE} \cup {FALSE : x \in 1..faults} :
         \E content \in IF ok THEN Written(t) ELSE Partial(t) :
            /\ faults' = IF ok THEN faults ELSE faults - 1
            /\ saveRet' = Set(saveRet, t, IF ok THEN "True" ELSE "False")
            /\ hist' = [hist EXCEPT !.saveFailed = @ \/ ~ok]
            /\ disk' = IF fd[t] = "path" THEN content ELSE disk
            /\ backup' = IF fd[t] = "backup" THEN content ELSE backup
    /\ fd' = Set(fd, t, "closed")
    /\ before' = Set(before, t, Absent)
    /\ AfterSave(t)
    /\ UNCHANGED <<now, budget, sid, mem, isNew, day, shown, trig, factoryVars>>

Step(t) ==
    \/ EnterSessionId(t)
    \/ Rerun(t)
    \/ ClickPlan(t)
    \/ ClickDelete(t)
    \/ \E q \in Questions : AskQuestion(t, q)
    \/ CheckExists(t)
    \/ Load(t)
    \/ Rename(t)
    \/ \E r \in PlanResponses : PlanReturned(t, r)
    \/ PlanFailed(t)
    \/ Delete(t)
    \/ Render(t)
    \/ \E x \in Texts : DayReturned(t, x)
    \/ DayFailed(t)
    \/ \E a \in Answers : QuestionAnswered(t, a)
    \/ QuestionFailed(t)
    \/ SaveOpen(t)
    \/ SaveWrite(t)

\* two tabs, or two processes, on one session id
Next == \E t \in Tabs : Step(t)

Spec == Init /\ [][Next]_vars

\* one tab alone
NextSolo == Step(1)

SpecSolo == Init /\ [][NextSolo]_vars

(***************************************************************************)
(* The course factory on its own: every plan text of up to MaxLen          *)
(* characters                                                              *)
(***************************************************************************)
RECURSIVE SeqsUpTo(_)
SeqsUpTo(n) ==
    IF n = 0 THEN {<<>>}
    ELSE LET shorter == SeqsUpTo(n - 1)
         IN shorter \cup {Append(s, c) : s \in shorter, c \in Alphabet}

InitFactory ==
    /\ disk = Absent
    /\ backup = Absent
    /\ now = 0
    /\ budget = MaxSteps
    /\ faults = MaxFaults
    /\ pc = [t \in Tabs |-> "idle"]
    /\ sid = [t \in Tabs |-> ""]
    /\ mem = [t \in Tabs |-> init_session_data]
    /\ isNew = [t \in Tabs |-> TRUE]
    /\ day = [t \in Tabs |-> 1]
    /\ shown = [t \in Tabs |-> None]
    /\ chat = [t \in Tabs |-> <<>>]
    /\ newPlan = [t \in Tabs |-> FALSE]
    /\ qReady = [t \in Tabs |-> FALSE]
    /\ trig = [t \in Tabs |-> NoTrig]
    /\ saveRet = [t \in Tabs |-> "none"]
    /\ fd = [t \in Tabs |-> "closed"]
    /\ before = [t \in Tabs |-> Absent]
    /\ cont = [t \in Tabs |-> "none"]
    /\ hist = [called |-> {}, dup |-> FALSE, deleted |-> FALSE,
               saveFailed |-> FALSE, users |-> {}]
    /\ plan_in \in SeqsUpTo(MaxLen)
    /\ plan_out = <<>>

CreateCourse ==
    /\ plan_out = <<>>
    /\ plan_out' = <<create_new_course("course", "level", "content", plan_in, now)>>
    /\ UNCHANGED <<disk, backup, now, budget, faults, pc, sid, mem, isNew, day,
                   shown, chat, newPlan, qReady, trig, saveRet, fd, before,
                   cont, hist, plan_in>>

NextFactory == CreateCourse

SpecFactory == InitFactory /\ [][NextFactory]_vars

(***************************************************************************)
(* Properties                                                              *)
(***************************************************************************)
\* the key of the day the slider of tab t stands on, after the step
DayKey(t) == DayStr[day'[t]]

\* the lesson texts of the course tab t works on
StoredDays(t) == current_course(mem[t]).daily_contents

\* tab t's Render step finds the stored text and draws the question input
ShowsStored(t) == pc[t] = "render" /\ pc'[t] = "idle" /\ qReady'[t]

\* tab t's Render step calls the daily-content model
CallsModel(t) == pc[t] = "render" /\ pc'[t] = "daycall"

SaveEnds(t) == pc[t] \in {"save_open", "save_write"}
               /\ pc'[t] \notin {"save_open", "save_write"}

DayKeys == {DayStr[n] : n \in 1..Len(DayStr)}

Corrupt(file) == file.kind \in {"badjson", "badbytes"}

\* tab t's load_session_data returns in this step
LoadEnds(t) == pc[t] \in {"load", "rename"} /\ pc'[t] \notin {"load", "rename"}

\* C3 as the specification states it: loading a session file that is not
\* valid JSON returns the fresh document, leaves no file under the session's
\* name and leaves the corrupted bytes in the .backup file
C3_CorruptLoadBacksUp ==
    [][\A t \in Tabs :
         LoadEnds(t) /\ Corrupt(disk) =>
            /\ mem'[t] = init_session_data
            /\ disk' = Absent
            /\ backup' = disk]_vars

\* C4: a plan that comes back adds exactly one course under
\* course_{len + 1}, a key no existing course has, leaves every existing
\* course as it was and makes the new course the last accessed one
C4_PlanAddsNewCourse ==
    [][\A t \in Tabs :
         pc[t] = "plancall" /\ pc'[t] = "save_open" =>
            LET old == mem[t].courses
                new == mem'[t].courses
                id == CourseId(Cardinality(DOMAIN old) + 1)
            IN /\ id \notin DOMAIN old
               /\ DOMAIN new = DOMAIN old \cup {id}
               /\ \A c \in DOMAIN old : new[c] = old[c]
               /\ mem'[t].last_accessed_course = id]_vars

\* a second course was added next to the first and saved
C4_Witness ==
    \E t \in Tabs :
        /\ DOMAIN mem[t].courses = {"course_1", "course_2"}
        /\ mem[t].last_accessed_course = "course_2"
        /\ mem[t].courses["course_1"].created_at
              < mem[t].courses["course_2"].created_at
        /\ disk.kind = "json"
        /\ Loaded(disk) = mem[t]

\* old is what is left of new when entries are taken from its front
IsTail(old, new) ==
    /\ Len(old) <= Len(new)
    /\ \A i \in 1..Len(old) : new[Len(new) - Len(old) + i] = old[i]

\* C5: an answered question puts one entry at index 0 of the course's
\* qa_history and keeps the entries that were there, in their order; the save
\* that follows persists the history in that order
C5_NewestFirst ==
    [][\A t \in Tabs :
         /\ pc[t] = "qcall" /\ pc'[t] = "save_open" =>
               LET cid == mem[t].last_accessed_course
                   old == mem[t].courses[cid].qa_history
                   new == mem'[t].courses[cid].qa_history
               IN /\ Len(new) = Len(old) + 1
                  /\ new[1].question = trig[t].q
                  /\ \A i \in 1..Len(old) : new[i + 1] = old[i]
         /\ pc[t] \in {"plancall", "daycall", "qcall", "render",
                       "save_open", "save_write"} =>
               \A c \in DOMAIN mem[t].courses :
                  /\ c \in DOMAIN mem'[t].courses
                  /\ IsTail(mem[t].courses[c].qa_history,
                            mem'[t].courses[c].qa_history)
         /\ SaveEnds(t) /\ saveRet'[t] = "True" /\ cont[t] = "start" =>
               /\ disk'.kind = "json"
               /\ current_course(disk'.doc).qa_history
                     = current_course(mem[t]).qa_history]_vars

\* Q1 was asked, then Q2: Q2 stands first in memory and in the file
C5_Witness ==
    \E t \in Tabs :
        /\ HasCourse(mem[t])
        /\ ~Dangling(mem[t])
        /\ Len(current_course(mem[t]).qa_history) = 2
        /\ current_course(mem[t]).qa_history[1].question = "Q2"
        /\ current_course(mem[t]).qa_history[2].question = "Q1"
        /\ current_course(mem[t]).qa_history[1].timestamp
              > current_course(mem[t]).qa_history[2].timestamp
        /\ disk.kind = "json"
        /\ Loaded(disk) = mem[t]

\* C6 as the specification states it: a save that returns False leaves the
\* session file exactly as it was before the save was called
C6_FailedSaveKeepsFile ==
    [][\A t \in Tabs :
         SaveEnds(t) /\ saveRet'[t] = "False" =>
            disk' = (IF pc[t] = "save_open" THEN disk ELSE before[t])]_vars

\* a model call of tab t ends in this step without a result
CallFails(t) ==
    /\ pc[t] \in {"plancall", "daycall", "qcall"}
    /\ pc'[t] \notin {pc[t], "save_open"}

\* C7: a model call that raises adds no course, no lesson text and no
\* question, neither to the document in memory nor to the transcript nor to
\* the files, and save_session_data is not called
C7_FailureCommitsNothing ==
    [][\A t \in Tabs :
         CallFails(t) =>
            /\ mem' = mem
            /\ chat' = chat
            /\ disk' = disk
            /\ backup' = backup
            /\ saveRet' = saveRet
            /\ fd' = fd
            /\ pc'[t] \notin {"save_open", "save_write"}]_vars

\* a model call has failed where a course was there to be changed, and the
\* file still holds the document as it was saved
C7_Witness ==
    \E t \in Tabs :
        /\ faults < MaxFaults
        /\ ~hist.saveFailed
        /\ pc[t] = "idle"
        /\ HasCourse(mem[t])
        /\ disk.kind = "json"
        /\ Loaded(disk) = mem[t]

\* C8 as the specification states it: the duration of every course, in memory
\* and in the file, is an integer of at least 1
C8_DurationPositive ==
    /\ \A t \in Tabs : \A c \in DOMAIN mem[t].courses :
          mem[t].courses[c].duration >= 1
    /\ \A c \in DOMAIN disk.doc.courses : disk.doc.courses[c].duration >= 1

\* the characters of s before its first line break
LineEnd(s) ==
    IF \E i \in 1..Len(s) : s[i] = "\n"
    THEN (CHOOSE i \in 1..Len(s) : s[i] = "\n" /\ \A j \in 1..(i - 1) : s[j] # "\n") - 1
    ELSE Len(s)

RECURSIVE ReadFrom(_, _, _, _)
\* the number the digits s[i..e] spell after the digits that gave acc
ReadFrom(s, i, e, acc) ==
    IF i > e THEN acc ELSE ReadFrom(s, i + 1, e, 10 * acc + DigitVal(s[i]))

\* the duration the specification gives for the plan text s
StatedDuration(s) ==
    LET digits == {i \in 1..LineEnd(s) : IsDigit(s[i])}
    IN IF digits = {} THEN 20
       ELSE LET b == CHOOSE i \in digits : \A j \in digits : i <= j
                e == CHOOSE i \in b..LineEnd(s) :
                        /\ \A j \in b..i : j \in digits
                        /\ (i + 1) \notin digits
            IN ReadFrom(s, b, e, 0)

\* C9: the duration of a new course is the first run of digits of the first
\* line of the plan text read as an integer, and 20 when that line has no
\* digit, whatever the later lines hold
C9_DurationExtraction ==
    plan_out # <<>> => plan_out[1].duration = StatedDuration(plan_in)

\* a plan text with a digit on a later line only gave the default
C9_Witness ==
    /\ plan_out # <<>>
    /\ plan_in = <<"a", "\n", "2">>
    /\ plan_out[1].duration = 20

HoldsMore(a, b) ==
    \E c \in DOMAIN a.courses : \E k \in DOMAIN a.courses[c].daily_contents :
        \/ c \notin DOMAIN b.courses
        \/ k \notin DOMAIN b.courses[c].daily_contents
        \/ b.courses[c].daily_contents[k] # a.courses[c].daily_contents[k]

C11_NoDanglingCourse ==
    /\ \A t \in Tabs : ~Dangling(mem[t])
    /\ disk.kind = "json" => ~Dangling(disk.doc)

====
